---- MODULE Spec2Model ----
(***************************************************************************)
(* Inventory management over two stores: MongoDB documents (Inventory,     *)
(* Order, Retailer, OrderDetails; src/models.py, src/db.py) and Redis      *)
(* hashes (products, suppliers; src/redis_db.py).                          *)
(*                                                                         *)
(* A caller is one client of the stores (one running GUI).  Every handler  *)
(* of src/db.py is modelled at the granularity of its store operations:    *)
(* each read (objects(...).first()) and each write (save, update, modify,  *)
(* delete) is one atomic step, so that two callers interleave exactly      *)
(* where two clients of the same database can.  A store write may raise    *)
(* (the handler's except branch); a write that raises is not applied.      *)
(* Fields that no handler reads (name, location, contact_info, price) are  *)
(* left out of the records.                                                *)
(***************************************************************************)
EXTENDS Integers, Sequences, FiniteSets, TLC

\* ------------------------------------------------------------------ bounds
\* Largest quantity a caller enters.
MaxQty == 2
\* Number of handler calls issued in one behaviour.
MaxCalls == 3

\* ------------------------------------------------------------ identifiers
ProductIds == {"P1", "P2"}
InventoryIds == {"I1", "I2"}
OrderIds == {"O1"}
RetailerIds == {"R1", "R2"}
SupplierIds == {"S1", "S2"}
Callers == {"c1", "c2"}

VARIABLES
    suppliers,      \* Redis keys supplier:<id>
    products,       \* Redis hashes product:<id>, with their supplier_id
    retailers,      \* Retailer collection (retailer_id)
    orders,         \* Order collection
    inventory,      \* Inventory collection, in natural (insertion) order
    orderDetails,   \* OrderDetails collection, in natural (insertion) order
    nextId,         \* next ObjectId of an OrderDetails document
    now,            \* datetime.now()
    pc,             \* per caller: where its running handler stands
    call,           \* per caller: the handler's arguments, locals and result
    pre,            \* per caller: Inventory and OrderDetails as the call began
    prev,           \* per caller: the successful create_order_detail that the
                    \* call directly follows, if any, with what it began from
    baseline,       \* per inventory_id: the quantity last set from outside, and
                    \* the first OrderDetails id issued after it was set
    calls           \* number of calls issued so far

vars == <<suppliers, products, retailers, orders, inventory, orderDetails,
          nextId, now, pc, call, pre, prev, baseline, calls>>

catalog == <<suppliers, products, retailers>>

\* ------------------------------------------------------------------ inputs
\* A quantity argument: an int (the GUI converts the field named quantity)
\* or the text of an entry field (new_quantity is passed as typed).
IntArg(n) == [kind |-> "int", val |-> n, text |-> <<>>]
StrArg(s) == [kind |-> "str", val |-> 0, text |-> s]

QuantityArgs ==
    {IntArg(n) : n \in -1..MaxQty}
    \cup {StrArg(<<"1", ".", "5">>), StrArg(<<" ", "2">>)}

\* The outcome of a conversion: the int, or ValueError raised.
Int_(n) == [ok |-> TRUE, val |-> n]
ValueError == [ok |-> FALSE, val |-> 0]

DigitValue == [c \in {"0", "1", "2", "3", "4", "5", "6", "7", "8", "9"} |->
    CASE c = "0" -> 0 [] c = "1" -> 1 [] c = "2" -> 2 [] c = "3" -> 3
      [] c = "4" -> 4 [] c = "5" -> 5 [] c = "6" -> 6 [] c = "7" -> 7
      [] c = "8" -> 8 [] c = "9" -> 9]

RECURSIVE StripLeft(_)
StripLeft(s) == IF s # <<>> /\ Head(s) = " " THEN StripLeft(Tail(s)) ELSE s

RECURSIVE StripRight(_)
StripRight(s) ==
    IF s # <<>> /\ s[Len(s)] = " " THEN StripRight(SubSeq(s, 1, Len(s) - 1)) ELSE s

RECURSIVE DigitsToInt(_)
DigitsToInt(s) ==
    IF s = <<>> THEN 0
    ELSE 10 * DigitsToInt(SubSeq(s, 1, Len(s) - 1)) + DigitValue[s[Len(s)]]

\* Python's int(x): an int is returned as it is; a string is stripped of
\* surrounding blanks, takes one optional sign and needs one digit at least.
PyInt(x) ==
    IF x.kind = "int" THEN Int_(x.val)
    ELSE LET t == StripRight(StripLeft(x.text))
             signed == t # <<>> /\ Head(t) \in {"+", "-"}
             digits == IF signed THEN Tail(t) ELSE t
         IN  IF digits = <<>> \/ \E i \in 1..Len(digits) : digits[i] \notin DOMAIN DigitValue
             THEN ValueError
             ELSE IF signed /\ Head(t) = "-" THEN Int_(0 - DigitsToInt(digits))
                  ELSE Int_(DigitsToInt(digits))

\* ------------------------------------------------------- store primitives
None == [inventory_id |-> "None", product_id |-> "None", quantity |-> 0]
NoLine == [id |-> 0, order |-> "None", product_id |-> "None", quantity |-> 0]

\* QuerySet.first() of a filtered collection kept as a sequence.
First(matching, none) == IF matching = <<>> THEN none ELSE Head(matching)

\* Inventory.objects(product_id=product_id).first()
InventoryOfProduct(inv, product_id) ==
    LET Match(d) == d.product_id = product_id IN First(SelectSeq(inv, Match), None)

\* Inventory.objects(inventory_id=inventory_id).first()
InventoryById(inv, inventory_id) ==
    LET Match(d) == d.inventory_id = inventory_id IN First(SelectSeq(inv, Match), None)

\* A lookup that takes the first line of the order, whatever its product.
OrderDetailOf_AnyProduct(ods, order_id, product_id) ==
    LET Match(d) == d.order = order_id
    IN  First(SelectSeq(ods, Match), NoLine)

\* OrderDetails.objects(order=order_id, product_id=product_id).first()
OrderDetailOf(ods, order_id, product_id) ==
    LET Match(d) == d.order = order_id /\ d.product_id = product_id
    IN  First(SelectSeq(ods, Match), NoLine)

\* A lookup that finds an order whatever the collection holds.
OrderExists_Always(ords, order_id) == TRUE

\* Order.objects(order_id=order_id).first() is not None
OrderExists(ords, order_id) == \E o \in ords : o.order_id = order_id

\* An increment applied to every record of the collection.
IncQuantity_All(inv, inventory_id, n) ==
    [i \in 1..Len(inv) |-> [inv[i] EXCEPT !.quantity = @ + n]]

\* item.update(inc__quantity=n) / item.modify(inc__quantity=n): an atomic $inc
\* on the stored document with the item's primary key; no document, no change.
IncQuantity(inv, inventory_id, n) ==
    [i \in 1..Len(inv) |->
        IF inv[i].inventory_id = inventory_id
        THEN [inv[i] EXCEPT !.quantity = @ + n]
        ELSE inv[i]]

\* A decrement done as a read-modify-write: the quantity the caller saw as its
\* call began, less n, written back over whatever the record holds by then.
DecQuantity_ReadModifyWrite(inv, inventory_id, n) ==
    LET p == CHOOSE p \in Callers :
                /\ pc[p] = "create_order_detail_debit"
                /\ call[p].inv = inventory_id
                /\ call[p].q = n
        seen == InventoryById(pre[p].inventory, inventory_id).quantity
    IN  [i \in 1..Len(inv) |->
            IF inv[i].inventory_id = inventory_id
            THEN [inv[i] EXCEPT !.quantity = seen - n]
            ELSE inv[i]]

\* item.update(dec__quantity=n)
DecQuantity(inv, inventory_id, n) == IncQuantity(inv, inventory_id, 0 - n)

\* Document.save() of a document built by its constructor: replace_one with
\* upsert on the primary key.
SaveInventory(inv, doc) ==
    IF \E i \in 1..Len(inv) : inv[i].inventory_id = doc.inventory_id
    THEN [i \in 1..Len(inv) |->
            IF inv[i].inventory_id = doc.inventory_id THEN doc ELSE inv[i]]
    ELSE Append(inv, doc)

\* order_detail.modify(set__quantity=n)
SetLineQuantity(ods, id, n) ==
    [i \in 1..Len(ods) |->
        IF ods[i].id = id THEN [ods[i] EXCEPT !.quantity = n] ELSE ods[i]]

\* A delete that leaves the document in place.
DeleteLine_Nothing(ods, id) == ods

\* document.delete(): removes the document with that primary key, if any.
DeleteLine(ods, id) == LET Keep(d) == d.id # id IN SelectSeq(ods, Keep)

DeleteInventoryDoc(inv, inventory_id) ==
    LET Keep(d) == d.inventory_id # inventory_id IN SelectSeq(inv, Keep)

\* ------------------------------------------------------------- call frames
NoCall == [op |-> "none", order |-> "None", product |-> "None", target |-> "None",
           int |-> TRUE, q |-> 0, inv |-> "None", od |-> 0, odq |-> 0,
           invWrite |-> "no", lineWrite |-> "no", comp |-> "no", res |-> "none"]

NewCall(op, order, product, target, q) ==
    [NoCall EXCEPT !.op = op, !.order = order, !.product = product,
                   !.target = target, !.int = q.ok, !.q = q.val]

Snapshot == [inventory |-> inventory, orderDetails |-> orderDetails,
             orders |-> orders, products |-> products]

NoPrev == [call |-> NoCall, pre |-> [inventory |-> <<>>, orderDetails |-> <<>>,
                                     orders |-> {}, products |-> {}]]

\* A caller with no handler running issues the next call.
CanCall(p) == pc[p] = "idle" /\ calls < MaxCalls

\* The handler returns res: the frame keeps the result until the next call.
Return(p, frame, res) ==
    /\ pc' = [pc EXCEPT ![p] = "idle"]
    /\ call' = [call EXCEPT ![p] = [frame EXCEPT !.res = res]]

Goto(p, frame, label) ==
    /\ pc' = [pc EXCEPT ![p] = label]
    /\ call' = [call EXCEPT ![p] = frame]

Begin(p) ==
    /\ CanCall(p)
    /\ calls' = calls + 1
    /\ pre' = [pre EXCEPT ![p] = Snapshot]
    /\ prev' = [prev EXCEPT ![p] =
                    IF call[p].op = "create_order_detail" /\ call[p].res = "ok"
                    THEN [call |-> call[p], pre |-> pre[p]]
                    ELSE NoPrev]

\* ------------------------------------------------- create_order_detail
\* Variants of the sufficiency check: one refuses a request for exactly the
\* quantity on hand, one looks only for the record.
NotEnoughInventory_Strict(item, quantity) == item = None \/ item.quantity <= quantity

NotEnoughInventory_MissingOnly(item, quantity) == item = None

\* "not inventory_item or inventory_item.quantity < quantity"
NotEnoughInventory(item, quantity) == item = None \/ item.quantity < quantity

\* A rollback that credits nothing.
Compensate_Nothing(inv, frame) == inv

\* "inventory_item.update(inc__quantity=quantity)" of the except branch
Compensate(inv, frame) == IncQuantity(inv, frame.inv, frame.q)

\* The call, int(quantity) and the Order lookup.
create_order_detail_call(p, order_id, product_id, quantity) ==
        LET q == PyInt(quantity)
            frame == NewCall("create_order_detail", order_id, product_id, "None", q)
        IN  /\ Begin(p)
            /\ IF ~q.ok THEN Return(p, frame, "invalid_quantity")
               ELSE IF ~OrderExists(orders, order_id) THEN Return(p, frame, "order_not_found")
               ELSE Goto(p, frame, "create_order_detail_check")
            /\ UNCHANGED <<catalog, orders, inventory, orderDetails, nextId, now, baseline>>

\* A call with any arguments of the input sets.
create_order_detail(p) ==
    \E order_id \in OrderIds, product_id \in ProductIds, quantity \in QuantityArgs :
        create_order_detail_call(p, order_id, product_id, quantity)

\* The Inventory lookup and the sufficiency check.
create_order_detail_check(p) ==
    /\ pc[p] = "create_order_detail_check"
    /\ LET item == InventoryOfProduct(inventory, call[p].product)
       IN  IF NotEnoughInventory(item, call[p].q)
           THEN Return(p, call[p], "not_enough_inventory")
           ELSE Goto(p, [call[p] EXCEPT !.inv = item.inventory_id], "create_order_detail_debit")
    /\ UNCHANGED <<catalog, orders, inventory, orderDetails, nextId, now, pre, prev, baseline, calls>>

\* inventory_item.update(dec__quantity=quantity)
create_order_detail_debit(p) ==
    /\ pc[p] = "create_order_detail_debit"
    /\ \E raised \in BOOLEAN :
        IF raised
        THEN /\ Goto(p, [call[p] EXCEPT !.invWrite = "raised"], "create_order_detail_rollback")
             /\ UNCHANGED inventory
        ELSE /\ inventory' = DecQuantity(inventory, call[p].inv, call[p].q)
             /\ Goto(p, [call[p] EXCEPT !.invWrite = "applied"], "create_order_detail_save")
    /\ UNCHANGED <<catalog, orders, orderDetails, nextId, now, pre, prev, baseline, calls>>

\* OrderDetails(order=order, product_id=product_id, quantity=quantity).save()
create_order_detail_save(p) ==
    /\ pc[p] = "create_order_detail_save"
    /\ \E raised \in BOOLEAN :
        IF raised
        THEN /\ Goto(p, [call[p] EXCEPT !.lineWrite = "raised"], "create_order_detail_rollback")
             /\ UNCHANGED <<orderDetails, nextId>>
        ELSE /\ orderDetails' = Append(orderDetails,
                    [id |-> nextId, order |-> call[p].order,
                     product_id |-> call[p].product, quantity |-> call[p].q])
             /\ nextId' = nextId + 1
             /\ Return(p, [call[p] EXCEPT !.lineWrite = "applied", !.od = nextId], "ok")
    /\ UNCHANGED <<catalog, orders, inventory, now, pre, prev, baseline, calls>>

\* except Exception: inventory_item.update(inc__quantity=quantity)
create_order_detail_rollback(p) ==
    /\ pc[p] = "create_order_detail_rollback"
    /\ \E raised \in BOOLEAN :
        IF raised
        THEN /\ Return(p, [call[p] EXCEPT !.comp = "raised"], "raised")
             /\ UNCHANGED inventory
        ELSE /\ inventory' = Compensate(inventory, call[p])
             /\ Return(p, [call[p] EXCEPT !.comp = "applied"], "failed")
    /\ UNCHANGED <<catalog, orders, orderDetails, nextId, now, pre, prev, baseline, calls>>

\* ------------------------------------------------- update_order_detail
\* A check that refuses a difference equal to the quantity on hand.
InsufficientForUpdate_Strict(quantity_difference, item) ==
    quantity_difference > 0 /\ quantity_difference >= item.quantity

\* A check with its comparison turned round.
InsufficientForUpdate_Reversed(quantity_difference, item) ==
    quantity_difference > 0 /\ quantity_difference < item.quantity

\* A check that also refuses a difference of zero when nothing is on hand.
InsufficientForUpdate_ZeroRefused(quantity_difference, item) ==
    quantity_difference >= 0 /\ quantity_difference >= item.quantity

\* "quantity_difference > 0 and quantity_difference > inventory_item.quantity"
InsufficientForUpdate(quantity_difference, item) ==
    quantity_difference > 0 /\ quantity_difference > item.quantity

\* "quantity_difference = new_quantity - order_detail.quantity"
QuantityDifference(frame) == frame.q - frame.odq

\* The call, int(new_quantity) and the OrderDetails lookup.
update_order_detail(p) ==
    \E order_id \in OrderIds, product_id \in ProductIds, new_quantity \in QuantityArgs :
        LET q == PyInt(new_quantity)
            frame == NewCall("update_order_detail", order_id, product_id, "None", q)
            order_detail == OrderDetailOf(orderDetails, order_id, product_id)
        IN  /\ Begin(p)
            /\ IF ~q.ok THEN Return(p, frame, "invalid_quantity")
               ELSE IF order_detail = NoLine THEN Return(p, frame, "order_detail_not_found")
               ELSE Goto(p, [frame EXCEPT !.od = order_detail.id,
                                          !.odq = order_detail.quantity],
                         "update_order_detail_check")
            /\ UNCHANGED <<catalog, orders, inventory, orderDetails, nextId, now, baseline>>

\* The Inventory lookup, the difference and the sufficiency check.
update_order_detail_check(p) ==
    /\ pc[p] = "update_order_detail_check"
    /\ LET item == InventoryOfProduct(inventory, call[p].product)
       IN  IF item = None THEN Return(p, call[p], "inventory_not_found")
           ELSE IF InsufficientForUpdate(QuantityDifference(call[p]), item)
           THEN Return(p, call[p], "not_enough_inventory")
           ELSE Goto(p, [call[p] EXCEPT !.inv = item.inventory_id], "update_order_detail_inventory")
    /\ UNCHANGED <<catalog, orders, inventory, orderDetails, nextId, now, pre, prev, baseline, calls>>

\* inventory_item.modify(inc__quantity=-quantity_difference)
update_order_detail_inventory(p) ==
    /\ pc[p] = "update_order_detail_inventory"
    /\ \E raised \in BOOLEAN :
        IF raised
        THEN /\ Return(p, [call[p] EXCEPT !.invWrite = "raised"], "failed")
             /\ UNCHANGED inventory
        ELSE /\ inventory' = IncQuantity(inventory, call[p].inv, 0 - QuantityDifference(call[p]))
             /\ Goto(p, [call[p] EXCEPT !.invWrite = "applied"], "update_order_detail_line")
    /\ UNCHANGED <<catalog, orders, orderDetails, nextId, now, pre, prev, baseline, calls>>

\* order_detail.modify(set__quantity=new_quantity)
update_order_detail_line(p) ==
    /\ pc[p] = "update_order_detail_line"
    /\ \E raised \in BOOLEAN :
        IF raised
        THEN /\ Return(p, [call[p] EXCEPT !.lineWrite = "raised"], "failed")
             /\ UNCHANGED orderDetails
        ELSE /\ orderDetails' = SetLineQuantity(orderDetails, call[p].od, call[p].q)
             /\ Return(p, [call[p] EXCEPT !.lineWrite = "applied"], "ok")
    /\ UNCHANGED <<catalog, orders, inventory, nextId, now, pre, prev, baseline, calls>>

\* ------------------------------------------------- delete_order_detail
\* A delete that returns nothing to the inventory.
CreditLine_Nothing(inv, frame) == inv

\* "inventory_item.update(inc__quantity=order_detail.quantity)"
CreditLine(inv, frame) == IncQuantity(inv, frame.inv, frame.odq)

\* The call and the OrderDetails lookup.
delete_order_detail_call(p, order_id, product_id) ==
        LET frame == NewCall("delete_order_detail", order_id, product_id, "None", Int_(0))
            order_detail == OrderDetailOf(orderDetails, order_id, product_id)
        IN  /\ Begin(p)
            /\ IF order_detail = NoLine THEN Return(p, frame, "order_detail_not_found")
               ELSE Goto(p, [frame EXCEPT !.od = order_detail.id,
                                          !.odq = order_detail.quantity],
                         "delete_order_detail_check")
            /\ UNCHANGED <<catalog, orders, inventory, orderDetails, nextId, now, baseline>>

\* A call with any arguments of the input sets.
delete_order_detail(p) ==
    \E order_id \in OrderIds, product_id \in ProductIds :
        delete_order_detail_call(p, order_id, product_id)

\* The Inventory lookup.
delete_order_detail_check(p) ==
    /\ pc[p] = "delete_order_detail_check"
    /\ LET item == InventoryOfProduct(inventory, call[p].product)
       IN  IF item = None THEN Return(p, call[p], "inventory_not_found")
           ELSE Goto(p, [call[p] EXCEPT !.inv = item.inventory_id], "delete_order_detail_credit")
    /\ UNCHANGED <<catalog, orders, inventory, orderDetails, nextId, now, pre, prev, baseline, calls>>

\* inventory_item.update(inc__quantity=order_detail.quantity)
delete_order_detail_credit(p) ==
    /\ pc[p] = "delete_order_detail_credit"
    /\ \E raised \in BOOLEAN :
        IF raised
        THEN /\ Return(p, [call[p] EXCEPT !.invWrite = "raised"], "failed")
             /\ UNCHANGED inventory
        ELSE /\ inventory' = CreditLine(inventory, call[p])
             /\ Goto(p, [call[p] EXCEPT !.invWrite = "applied"], "delete_order_detail_line")
    /\ UNCHANGED <<catalog, orders, orderDetails, nextId, now, pre, prev, baseline, calls>>

\* order_detail.delete()
delete_order_detail_line(p) ==
    /\ pc[p] = "delete_order_detail_line"
    /\ \E raised \in BOOLEAN :
        IF raised
        THEN /\ Return(p, [call[p] EXCEPT !.lineWrite = "raised"], "failed")
             /\ UNCHANGED orderDetails
        ELSE /\ orderDetails' = DeleteLine(orderDetails, call[p].od)
             /\ Return(p, [call[p] EXCEPT !.lineWrite = "applied"], "ok")
    /\ UNCHANGED <<catalog, orders, inventory, nextId, now, pre, prev, baseline, calls>>

\* ------------------------------------------------------------ Inventory
\* A catalog check that finds every product.
check_product_exists_in_redis_Always(product_id) == TRUE

\* check_product_exists_in_redis(product_id)
check_product_exists_in_redis(product_id) == \E h \in products : h.product_id = product_id

\* A set that adds the new quantity to the stored one.
SetInventoryQuantity_Add(inv, inventory_id, n) ==
    [i \in 1..Len(inv) |->
        IF inv[i].inventory_id = inventory_id
        THEN [inv[i] EXCEPT !.quantity = @ + n]
        ELSE inv[i]]

\* inventory.quantity = new_quantity; inventory.save(): $set of the changed field.
SetInventoryQuantity(inv, inventory_id, n) ==
    [i \in 1..Len(inv) |->
        IF inv[i].inventory_id = inventory_id
        THEN [inv[i] EXCEPT !.quantity = n]
        ELSE inv[i]]

\* The quantity an Inventory record was last given by create_inventory or
\* update_inventory_quantity, and the OrderDetails ids issued since.
NoBaseline == [set |-> FALSE, quantity |-> 0, since |-> 0]
SetAt(quantity, id) == [set |-> TRUE, quantity |-> quantity, since |-> id]

\* IntField validation on save: int(value) must not raise.
create_inventory(p) ==
    \E inventory_id \in InventoryIds, product_id \in ProductIds, quantity \in QuantityArgs :
        LET q == PyInt(quantity)
            frame == NewCall("create_inventory", "None", product_id, inventory_id, q)
        IN  /\ Begin(p)
            /\ IF ~check_product_exists_in_redis(product_id)
               THEN Return(p, frame, "product_not_found") /\ UNCHANGED <<inventory, baseline>>
               ELSE \E raised \in BOOLEAN :
                    IF ~q.ok \/ raised
                    THEN Return(p, [frame EXCEPT !.invWrite = "raised"], "failed")
                         /\ UNCHANGED <<inventory, baseline>>
                    ELSE /\ inventory' = SaveInventory(inventory,
                                [inventory_id |-> inventory_id, product_id |-> product_id,
                                 quantity |-> q.val])
                         /\ baseline' = [baseline EXCEPT ![inventory_id] = SetAt(q.val, nextId)]
                         /\ Return(p, [frame EXCEPT !.invWrite = "applied"], "ok")
            /\ UNCHANGED <<catalog, orders, orderDetails, nextId, now>>

update_inventory_quantity(p) ==
    \E inventory_id \in InventoryIds, new_quantity \in QuantityArgs :
        LET q == PyInt(new_quantity)
            item == InventoryById(inventory, inventory_id)
            frame == NewCall("update_inventory_quantity", "None", item.product_id,
                             inventory_id, q)
        IN  /\ Begin(p)
            /\ IF item = None
               THEN Return(p, frame, "inventory_not_found") /\ UNCHANGED <<inventory, baseline>>
               ELSE \E raised \in BOOLEAN :
                    IF ~q.ok \/ raised
                    THEN Return(p, [frame EXCEPT !.invWrite = "raised"], "raised")
                         /\ UNCHANGED <<inventory, baseline>>
                    ELSE /\ inventory' = SetInventoryQuantity(inventory, inventory_id, q.val)
                         /\ baseline' = [baseline EXCEPT ![inventory_id] = SetAt(q.val, nextId)]
                         /\ Return(p, [frame EXCEPT !.invWrite = "applied"], "ok")
            /\ UNCHANGED <<catalog, orders, orderDetails, nextId, now>>

delete_inventory(p) ==
    \E inventory_id \in InventoryIds :
        LET item == InventoryById(inventory, inventory_id)
            frame == NewCall("delete_inventory", "None", item.product_id, inventory_id, Int_(0))
        IN  /\ Begin(p)
            /\ IF item = None
               THEN Return(p, frame, "inventory_not_found") /\ UNCHANGED <<inventory, baseline>>
               ELSE /\ inventory' = DeleteInventoryDoc(inventory, inventory_id)
                    /\ baseline' = [baseline EXCEPT ![inventory_id] = NoBaseline]
                    /\ Return(p, [frame EXCEPT !.invWrite = "applied"], "ok")
            /\ UNCHANGED <<catalog, orders, orderDetails, nextId, now>>

\* ---------------------------------------------------------------- Order
delete_order(p) ==
    \E order_id \in OrderIds :
        LET frame == NewCall("delete_order", order_id, "None", "None", Int_(0))
        IN  /\ Begin(p)
            /\ IF ~OrderExists(orders, order_id)
               THEN Return(p, frame, "order_not_found") /\ UNCHANGED orders
               ELSE /\ orders' = {o \in orders : o.order_id # order_id}
                    /\ Return(p, frame, "ok")
            /\ UNCHANGED <<catalog, inventory, orderDetails, nextId, now, baseline>>

\* A lookup that finds a retailer whatever the collection holds.
RetailerExists_Always(retailer_id) == TRUE

\* Retailer.objects(retailer_id=retailer_id).first() is not None
RetailerExists(retailer_id) == retailer_id \in retailers

\* new_order.save(): replace_one with upsert on order_id.
SaveOrder(ords, doc) == {o \in ords : o.order_id # doc.order_id} \cup {doc}

\* datetime.now(), the retailer lookup and the save, all inside the try; the
\* clock has moved on by the next call.
create_order(p) ==
    \E order_id \in OrderIds, retailer_id \in RetailerIds :
        LET frame == NewCall("create_order", order_id, "None", retailer_id, Int_(0))
            order_date == now
        IN  /\ Begin(p)
            /\ now' = now + 1
            /\ IF ~RetailerExists(retailer_id)
               THEN Return(p, frame, "retailer_not_found") /\ UNCHANGED orders
               ELSE \E raised \in BOOLEAN :
                    IF raised
                    THEN Return(p, [frame EXCEPT !.lineWrite = "raised"], "failed")
                         /\ UNCHANGED orders
                    ELSE /\ orders' = SaveOrder(orders,
                                [order_id |-> order_id, retailer |-> retailer_id,
                                 order_date |-> order_date])
                         /\ Return(p, [frame EXCEPT !.lineWrite = "applied"], "ok")
            /\ UNCHANGED <<catalog, inventory, orderDetails, nextId, baseline>>

\* An empty new_retailer_id is "not provided".
NewRetailerArgs == RetailerIds \cup {""}

\* order.retailer = new_retailer; order.save(): $set of the changed field,
\* outside any try.
SetOrderRetailer(ords, order_id, retailer_id) ==
    {IF o.order_id = order_id THEN [o EXCEPT !.retailer = retailer_id] ELSE o : o \in ords}

update_order(p) ==
    \E order_id \in OrderIds, new_retailer_id \in NewRetailerArgs :
        LET frame == NewCall("update_order", order_id, "None", new_retailer_id, Int_(0))
        IN  /\ Begin(p)
            /\ IF ~OrderExists(orders, order_id)
               THEN Return(p, frame, "order_not_found") /\ UNCHANGED orders
               ELSE IF new_retailer_id # "" /\ ~RetailerExists(new_retailer_id)
               THEN Return(p, frame, "retailer_not_found") /\ UNCHANGED orders
               ELSE \E raised \in BOOLEAN :
                    IF raised
                    THEN Return(p, [frame EXCEPT !.lineWrite = "raised"], "raised")
                         /\ UNCHANGED orders
                    ELSE /\ orders' = IF new_retailer_id = "" THEN orders
                                      ELSE SetOrderRetailer(orders, order_id, new_retailer_id)
                         /\ Return(p, [frame EXCEPT !.lineWrite = "applied"], "ok")
            /\ UNCHANGED <<catalog, inventory, orderDetails, nextId, now, baseline>>

\* ------------------------------------------------------------- Retailer
\* new_retailer.save(): an upsert on retailer_id.
create_retailer(p) ==
    \E retailer_id \in RetailerIds :
        LET frame == NewCall("create_retailer", "None", "None", retailer_id, Int_(0))
        IN  /\ Begin(p)
            /\ \E raised \in BOOLEAN :
                IF raised
                THEN Return(p, frame, "failed") /\ UNCHANGED retailers
                ELSE /\ retailers' = retailers \cup {retailer_id}
                     /\ Return(p, frame, "ok")
            /\ UNCHANGED <<suppliers, products, orders, inventory, orderDetails,
                           nextId, now, baseline>>

\* retailer.delete(): orders that reference the retailer are left in place.
delete_retailer(p) ==
    \E retailer_id \in RetailerIds :
        LET frame == NewCall("delete_retailer", "None", "None", retailer_id, Int_(0))
        IN  /\ Begin(p)
            /\ IF ~RetailerExists(retailer_id)
               THEN Return(p, frame, "retailer_not_found") /\ UNCHANGED retailers
               ELSE /\ retailers' = retailers \ {retailer_id}
                    /\ Return(p, frame, "ok")
            /\ UNCHANGED <<suppliers, products, orders, inventory, orderDetails,
                           nextId, now, baseline>>

\* ------------------------------------------------------ product catalog
\* A check that finds every supplier.
SupplierExists_Always(supplier_id) == TRUE

\* r.exists(f'supplier:{supplier_id}')
SupplierExists(supplier_id) == supplier_id \in suppliers

\* r.hmset(key, {...}) of a new supplier; the call raises when the store is
\* unreachable.
create_supplier(p) ==
    \E supplier_id \in SupplierIds :
        LET frame == NewCall("create_supplier", "None", "None", supplier_id, Int_(0))
        IN  /\ Begin(p)
            /\ IF SupplierExists(supplier_id)
               THEN Return(p, frame, "supplier_exists") /\ UNCHANGED suppliers
               ELSE \E raised \in BOOLEAN :
                    IF raised
                    THEN Return(p, frame, "raised") /\ UNCHANGED suppliers
                    ELSE /\ suppliers' = suppliers \cup {supplier_id}
                         /\ Return(p, frame, "ok")
            /\ UNCHANGED <<products, retailers, orders, inventory, orderDetails,
                           nextId, now, baseline>>

\* r.delete(key): the number of keys removed decides the result; products of
\* the supplier are left in place.
delete_supplier(p) ==
    \E supplier_id \in SupplierIds :
        LET frame == NewCall("delete_supplier", "None", "None", supplier_id, Int_(0))
        IN  /\ Begin(p)
            /\ IF ~SupplierExists(supplier_id)
               THEN Return(p, frame, "supplier_not_found") /\ UNCHANGED suppliers
               ELSE /\ suppliers' = suppliers \ {supplier_id}
                    /\ Return(p, frame, "ok")
            /\ UNCHANGED <<products, retailers, orders, inventory, orderDetails,
                           nextId, now, baseline>>

create_product(p) ==
    \E product_id \in ProductIds, supplier_id \in SupplierIds :
        LET frame == NewCall("create_product", "None", product_id, supplier_id, Int_(0))
        IN  /\ Begin(p)
            /\ IF ~SupplierExists(supplier_id)
               THEN Return(p, frame, "supplier_not_found") /\ UNCHANGED products
               ELSE IF check_product_exists_in_redis(product_id)
               THEN Return(p, frame, "product_exists") /\ UNCHANGED products
               ELSE \E raised \in BOOLEAN :
                    IF raised
                    THEN Return(p, frame, "raised") /\ UNCHANGED products
                    ELSE /\ products' = products \cup
                                {[product_id |-> product_id, supplier_id |-> supplier_id]}
                         /\ Return(p, frame, "ok")
            /\ UNCHANGED <<suppliers, retailers, orders, inventory, orderDetails,
                           nextId, now, baseline>>

\* r.delete(key): Inventory records of the product are not looked at.
delete_product(p) ==
    \E product_id \in ProductIds :
        LET frame == NewCall("delete_product", "None", product_id, "None", Int_(0))
        IN  /\ Begin(p)
            /\ IF ~check_product_exists_in_redis(product_id)
               THEN Return(p, frame, "product_not_found") /\ UNCHANGED products
               ELSE /\ products' = {h \in products : h.product_id # product_id}
                    /\ Return(p, frame, "ok")
            /\ UNCHANGED <<suppliers, retailers, orders, inventory, orderDetails,
                           nextId, now, baseline>>

\* ------------------------------------------------------- specifications
IdleCallers == [p \in Callers |-> "idle"]

\* The stores as a run begins: the product catalog, one retailer, one order
\* and one Inventory record, as the create handlers leave them.
InitialQuantity == MaxQty

Init ==
    /\ suppliers = SupplierIds
    /\ products = {[product_id |-> x, supplier_id |-> "S1"] : x \in ProductIds}
    /\ retailers = RetailerIds
    /\ orders = {[order_id |-> "O1", retailer |-> "R1", order_date |-> 0]}
    /\ inventory = <<[inventory_id |-> "I1", product_id |-> "P1", quantity |-> InitialQuantity]>>
    /\ orderDetails = <<>>
    /\ nextId = 1
    /\ now = 1
    /\ pc = IdleCallers
    /\ call = [p \in Callers |-> NoCall]
    /\ pre = [p \in Callers |-> Snapshot]
    /\ prev = [p \in Callers |-> NoPrev]
    /\ baseline = [i \in InventoryIds |->
                     IF i = "I1" THEN SetAt(InitialQuantity, 1) ELSE NoBaseline]
    /\ calls = 0

OrderLineStep(p) ==
    \/ create_order_detail(p)
    \/ create_order_detail_check(p)
    \/ create_order_detail_debit(p)
    \/ create_order_detail_save(p)
    \/ create_order_detail_rollback(p)
    \/ update_order_detail(p)
    \/ update_order_detail_check(p)
    \/ update_order_detail_inventory(p)
    \/ update_order_detail_line(p)
    \/ delete_order_detail(p)
    \/ delete_order_detail_check(p)
    \/ delete_order_detail_credit(p)
    \/ delete_order_detail_line(p)

LedgerStep(p) ==
    \/ create_inventory(p)
    \/ update_inventory_quantity(p)
    \/ delete_inventory(p)
    \/ delete_order(p)

\* One caller: every handler runs to its end before the next call.
Next == OrderLineStep("c1") \/ LedgerStep("c1")

Spec == Init /\ [][Next]_vars

\* Two clients of the same stores issue order-line calls concurrently.
NextConcurrent == \E p \in Callers : OrderLineStep(p)

SpecConcurrent == Init /\ [][NextConcurrent]_vars

\* The catalog handlers and the Inventory handlers that read the catalog or
\* hold its product ids.
CatalogStep(p) ==
    \/ create_supplier(p)
    \/ delete_supplier(p)
    \/ create_product(p)
    \/ delete_product(p)
    \/ create_inventory(p)
    \/ delete_inventory(p)

NextCatalog == CatalogStep("c1")

SpecCatalog == Init /\ [][NextCatalog]_vars

\* The Retailer and Order handlers.
OrderStep(p) ==
    \/ create_retailer(p)
    \/ delete_retailer(p)
    \/ create_order(p)
    \/ update_order(p)
    \/ delete_order(p)

NextOrders == OrderStep("c1")

SpecOrders == Init /\ [][NextOrders]_vars

\* Two clients create and delete lines of one product, on two orders, with
\* every store write succeeding and no two deletes at work on the same line.
RaceOrderIds == {"O1", "O2"}
RaceProduct == "P1"
RaceQuantities == {IntArg(n) : n \in 1..MaxQty}

\* The lines stored as the run begins: one of the product on each order.
RaceLines ==
    <<[id |-> 1, order |-> "O1", product_id |-> RaceProduct, quantity |-> 1],
      [id |-> 2, order |-> "O2", product_id |-> RaceProduct, quantity |-> 1]>>

InitRace ==
    /\ suppliers = SupplierIds
    /\ products = {[product_id |-> x, supplier_id |-> "S1"] : x \in ProductIds}
    /\ retailers = RetailerIds
    /\ orders = {[order_id |-> o, retailer |-> "R1", order_date |-> 0] : o \in RaceOrderIds}
    /\ inventory = <<[inventory_id |-> "I1", product_id |-> RaceProduct,
                      quantity |-> InitialQuantity]>>
    /\ orderDetails = RaceLines
    /\ nextId = Len(RaceLines) + 1
    /\ now = 1
    /\ pc = IdleCallers
    /\ call = [p \in Callers |-> NoCall]
    /\ pre = [p \in Callers |-> Snapshot]
    /\ prev = [p \in Callers |-> NoPrev]
    /\ baseline = [i \in InventoryIds |->
                     IF i = "I1" THEN SetAt(InitialQuantity, Len(RaceLines) + 1)
                     ELSE NoBaseline]
    /\ calls = 0

DeleteLabels == {"delete_order_detail_check", "delete_order_detail_credit",
                 "delete_order_detail_line"}

\* No write of a call has raised, and the deletes at work are on distinct
\* lines.
SuccessfulOnDistinctLines ==
    /\ \A p \in Callers : call[p].invWrite # "raised" /\ call[p].lineWrite # "raised"
    /\ \A p, r \in Callers :
         (p # r /\ pc[p] \in DeleteLabels /\ pc[r] \in DeleteLabels)
         => call[p].od # call[r].od

RaceStep(p) ==
    \/ \E order_id \in RaceOrderIds, quantity \in RaceQuantities :
            create_order_detail_call(p, order_id, RaceProduct, quantity)
    \/ create_order_detail_check(p)
    \/ create_order_detail_debit(p) /\ SuccessfulOnDistinctLines'
    \/ create_order_detail_save(p) /\ SuccessfulOnDistinctLines'
    \/ \E order_id \in RaceOrderIds :
            /\ delete_order_detail_call(p, order_id, RaceProduct)
            /\ SuccessfulOnDistinctLines'
    \/ delete_order_detail_check(p)
    \/ delete_order_detail_credit(p) /\ SuccessfulOnDistinctLines'
    \/ delete_order_detail_line(p) /\ SuccessfulOnDistinctLines'

NextRace == \E p \in Callers : RaceStep(p)

SpecRace == InitRace /\ [][NextRace]_vars

\* ---------------------------------------------------------------- claims
\* Under Spec the one caller is "c1": its frame and the snapshot taken as its
\* call began describe the last call once the handler has returned.
Returned(op) == pc["c1"] = "idle" /\ call["c1"].op = op

\* The Inventory record of the call's product as the call began.
ItemBefore == InventoryOfProduct(pre["c1"].inventory, call["c1"].product)

\* The OrderDetails record of the call's (order, product) as the call began.
LineBefore == OrderDetailOf(pre["c1"].orderDetails, call["c1"].order, call["c1"].product)

QuantityNow(inventory_id) == InventoryById(inventory, inventory_id).quantity

HasLine(ods, order_id, product_id, quantity) ==
    \E i \in 1..Len(ods) :
        /\ ods[i].order = order_id
        /\ ods[i].product_id = product_id
        /\ ods[i].quantity = quantity

NoWriteRaised(frame) == frame.invWrite # "raised" /\ frame.lineWrite # "raised"

StoresUnchanged ==
    /\ inventory = pre["c1"].inventory
    /\ orderDetails = pre["c1"].orderDetails

\* The results with which a handler returns (False, message).
Failures == {"invalid_quantity", "order_not_found", "not_enough_inventory",
             "order_detail_not_found", "inventory_not_found", "failed"}

\* C1: a create_order_detail call with an integer quantity q, an existing
\* order and an Inventory record of the product holding at least q (q itself
\* included), none of whose store writes raises, succeeds; the record then
\* holds its former quantity minus q and a line (order, product) of quantity
\* q exists.
C1_CreateDebitsInventory ==
    ( /\ Returned("create_order_detail")
      /\ call["c1"].int
      /\ OrderExists(orders, call["c1"].order)
      /\ ItemBefore # None
      /\ ItemBefore.quantity >= call["c1"].q
      /\ NoWriteRaised(call["c1"]) )
    => /\ call["c1"].res = "ok"
       /\ QuantityNow(ItemBefore.inventory_id) = ItemBefore.quantity - call["c1"].q
       /\ HasLine(orderDetails, call["c1"].order, call["c1"].product, call["c1"].q)
       /\ Len(orderDetails) = Len(pre["c1"].orderDetails) + 1

\* A create for exactly the quantity on hand has succeeded.
C1_Witness ==
    /\ Returned("create_order_detail")
    /\ call["c1"].res = "ok"
    /\ call["c1"].q > 0
    /\ ItemBefore.quantity = call["c1"].q
    /\ QuantityNow(ItemBefore.inventory_id) = 0

\* C2 as stated: every create_order_detail call for a product with no
\* Inventory record, or with less than q on hand, fails with the
\* insufficient-inventory error and changes nothing.
C2_AsStated ==
    ( /\ Returned("create_order_detail")
      /\ call["c1"].int
      /\ (ItemBefore = None \/ ItemBefore.quantity < call["c1"].q) )
    => /\ call["c1"].res = "not_enough_inventory"
       /\ StoresUnchanged

\* C2: a create_order_detail call on an existing order, for a product with no
\* Inventory record or with less than q on hand, fails with the
\* insufficient-inventory error; the inventory is unchanged and no line is
\* created.
C2_InsufficientInventoryRejected ==
    ( /\ Returned("create_order_detail")
      /\ call["c1"].int
      /\ OrderExists(orders, call["c1"].order)
      /\ (ItemBefore = None \/ ItemBefore.quantity < call["c1"].q) )
    => /\ call["c1"].res = "not_enough_inventory"
       /\ StoresUnchanged

\* A create asking for more than the record holds has been refused.
C2_Witness ==
    /\ Returned("create_order_detail")
    /\ call["c1"].res = "not_enough_inventory"
    /\ ItemBefore # None
    /\ ItemBefore.quantity < call["c1"].q

\* The call "c1" has just returned from is a successful delete_order_detail
\* that directly followed its successful create_order_detail of the same
\* (order, product).
RoundTrip ==
    /\ Returned("delete_order_detail")
    /\ call["c1"].res = "ok"
    /\ prev["c1"].call.op = "create_order_detail"
    /\ prev["c1"].call.order = call["c1"].order
    /\ prev["c1"].call.product = call["c1"].product

\* The quantity on hand for the product before the create.
QuantityBeforeCreate ==
    InventoryOfProduct(prev["c1"].pre.inventory, call["c1"].product).quantity

RoundTripRestores ==
    /\ InventoryOfProduct(inventory, call["c1"].product).quantity = QuantityBeforeCreate
    /\ OrderDetailOf(orderDetails, call["c1"].order, call["c1"].product) = NoLine

\* C3 as stated: a successful create followed by a successful delete of the
\* same (order, product) restores the quantity and leaves no such line.
C3_AsStated == RoundTrip => RoundTripRestores

\* C3: when no line for (order, product) existed before the create, a
\* successful create_order_detail directly followed by a successful
\* delete_order_detail of the same (order, product) leaves the product's
\* quantity as it was before the create, and no line for (order, product).
C3_RoundTripRestoresInventory ==
    ( /\ RoundTrip
      /\ OrderDetailOf(prev["c1"].pre.orderDetails, call["c1"].order,
                       call["c1"].product) = NoLine )
    => RoundTripRestores

\* A line of positive quantity was created and deleted again.
C3_Witness ==
    /\ RoundTrip
    /\ prev["c1"].call.q > 0
    /\ prev["c1"].pre.orderDetails = <<>>
    /\ call["c1"].odq = prev["c1"].call.q

\* C4: a create_order_detail or update_order_detail call that returns a
\* failure, whatever the error, leaves Inventory and OrderDetails as they
\* were before the call.
C4_FailedCallChangesNothing ==
    ( /\ Returned("create_order_detail") \/ Returned("update_order_detail")
      /\ call["c1"].res \in Failures )
    => StoresUnchanged

\* C5: two concurrent create_order_detail calls of positive quantities on
\* the product of the one Inventory record never drive its quantity below
\* zero, and both succeed only if their quantities fit together.
C5_ConcurrentDebitsNeverNegative ==
    ( /\ calls = 2
      /\ \A p \in Callers :
            /\ call[p].op = "create_order_detail"
            /\ call[p].int
            /\ call[p].q > 0
            /\ call[p].product = "P1" )
    => /\ \A i \in 1..Len(inventory) : inventory[i].quantity >= 0
       /\ (\A p \in Callers : pc[p] = "idle" /\ call[p].res = "ok")
            => call["c1"].q + call["c2"].q <= InitialQuantity

\* C6: every Inventory record has quantity >= 0 in every reachable state.
C6_QuantityNonNegative ==
    \A i \in 1..Len(inventory) : inventory[i].quantity >= 0

\* The quantities of the lines of a product whose id was issued since `since`.
RECURSIVE SumOfLines(_, _, _)
SumOfLines(ods, product_id, since) ==
    IF ods = <<>> THEN 0
    ELSE (IF Head(ods).product_id = product_id /\ Head(ods).id >= since
          THEN Head(ods).quantity ELSE 0)
         + SumOfLines(Tail(ods), product_id, since)

\* C7: with no call running, every Inventory record holds the quantity it
\* was last given from outside minus the quantities of the lines of its
\* product that were created since and still exist.
C7_Conservation ==
    pc["c1"] = "idle" =>
        \A i \in 1..Len(inventory) :
            LET b == baseline[inventory[i].inventory_id]
            IN  b.set =>
                    inventory[i].quantity =
                        b.quantity - SumOfLines(orderDetails, inventory[i].product_id, b.since)

\* C8: when the debit of a create_order_detail call was applied and the save
\* of the line raised, a call that returns a failure has credited the
\* quantity back: Inventory and OrderDetails are as before the call.
C8_CreateCompensates ==
    ( /\ Returned("create_order_detail")
      /\ call["c1"].invWrite = "applied"
      /\ call["c1"].lineWrite = "raised"
      /\ call["c1"].res \in Failures )
    => /\ call["c1"].comp = "applied"
       /\ StoresUnchanged

\* A create whose save raised after a debit of a positive quantity has
\* returned its failure.
C8_Witness ==
    /\ Returned("create_order_detail")
    /\ call["c1"].invWrite = "applied"
    /\ call["c1"].lineWrite = "raised"
    /\ call["c1"].res = "failed"
    /\ call["c1"].q > 0
    /\ QuantityNow(call["c1"].inv) = ItemBefore.quantity

\* C9: create_order_detail and update_order_detail reject every quantity
\* that is not a positive integer as invalid, and change nothing.
C9_RejectsNonPositive ==
    ( /\ Returned("create_order_detail") \/ Returned("update_order_detail")
      /\ (~call["c1"].int \/ call["c1"].q <= 0) )
    => /\ call["c1"].res = "invalid_quantity"
       /\ StoresUnchanged

\* C10: a successful update_order_detail to newQuantity, on a line of
\* quantity c with v on hand, leaves v - (newQuantity - c) on hand and the
\* line at newQuantity; an increase by exactly v is accepted (when no store
\* write raises) and leaves 0.
C10_UpdateAppliesDelta ==
    /\ ( Returned("update_order_detail") /\ call["c1"].res = "ok" )
        => /\ QuantityNow(ItemBefore.inventory_id)
                = ItemBefore.quantity - (call["c1"].q - LineBefore.quantity)
           /\ OrderDetailOf(orderDetails, call["c1"].order, call["c1"].product).quantity
                = call["c1"].q
    /\ ( /\ Returned("update_order_detail")
         /\ call["c1"].int
         /\ LineBefore # NoLine
         /\ ItemBefore # None
         /\ call["c1"].q - LineBefore.quantity = ItemBefore.quantity
         /\ ItemBefore.quantity > 0
         /\ NoWriteRaised(call["c1"]) )
        => /\ call["c1"].res = "ok"
           /\ QuantityNow(ItemBefore.inventory_id) = 0

\* An update has raised a line by exactly the quantity on hand.
C10_Witness ==
    /\ Returned("update_order_detail")
    /\ call["c1"].res = "ok"
    /\ LineBefore.quantity > 0
    /\ call["c1"].q - LineBefore.quantity = ItemBefore.quantity
    /\ ItemBefore.quantity > 0
    /\ QuantityNow(ItemBefore.inventory_id) = 0

\* C11: an update_order_detail call whose difference newQuantity -
\* currentQuantity is positive and exceeds the quantity on hand fails with
\* the insufficient-inventory error; the inventory quantity and the line's
\* quantity keep their values.
C11_UpdateInsufficientRejected ==
    ( /\ Returned("update_order_detail")
      /\ call["c1"].int
      /\ LineBefore # NoLine
      /\ ItemBefore # None
      /\ call["c1"].q - LineBefore.quantity > 0
      /\ call["c1"].q - LineBefore.quantity > ItemBefore.quantity )
    => /\ call["c1"].res = "not_enough_inventory"
       /\ StoresUnchanged

\* An update asking for more than is on hand has been refused.
C11_Witness ==
    /\ Returned("update_order_detail")
    /\ call["c1"].res = "not_enough_inventory"
    /\ LineBefore.quantity > 0
    /\ call["c1"].q - LineBefore.quantity > ItemBefore.quantity
    /\ ItemBefore.quantity >= 0

\* C12: a successful delete_order_detail on a line of quantity c leaves the
\* Inventory record of the product with c more than before and removes that
\* line; with the line and the record present the call is refused for no
\* quantity on hand (it fails only when a store write raises).
C12_DeleteCreditsInventory ==
    /\ ( Returned("delete_order_detail") /\ call["c1"].res = "ok" )
        => /\ QuantityNow(ItemBefore.inventory_id)
                = ItemBefore.quantity + LineBefore.quantity
           /\ \A i \in 1..Len(orderDetails) : orderDetails[i].id # LineBefore.id
           /\ LET Others(d) == d.id # LineBefore.id
              IN  orderDetails = SelectSeq(pre["c1"].orderDetails, Others)
           /\ Len(orderDetails) = Len(pre["c1"].orderDetails) - 1
    /\ ( /\ Returned("delete_order_detail")
         /\ LineBefore # NoLine
         /\ ItemBefore # None
         /\ NoWriteRaised(call["c1"]) )
        => call["c1"].res = "ok"

\* A line of positive quantity was deleted and its quantity returned.
C12_Witness ==
    /\ Returned("delete_order_detail")
    /\ call["c1"].res = "ok"
    /\ LineBefore.quantity > 0
    /\ QuantityNow(ItemBefore.inventory_id) = ItemBefore.quantity + LineBefore.quantity

\* The results update_order_detail and delete_order_detail return when
\* nothing was applied: "failed" is the except branch, taken also when the
\* inventory write itself raised.
NothingAppliedResults == Failures

\* C13: an update_order_detail or delete_order_detail call whose inventory
\* write was applied and whose line write raised returns a result that is
\* neither success nor a result returned when nothing was applied.
C13_PartialFailureDistinct ==
    ( /\ Returned("update_order_detail") \/ Returned("delete_order_detail")
      /\ call["c1"].invWrite = "applied"
      /\ call["c1"].lineWrite = "raised" )
    => /\ call["c1"].res # "ok"
       /\ call["c1"].res \notin NothingAppliedResults

\* The quantity on hand over the Inventory records of a product.
RECURSIVE OnHand(_, _)
OnHand(inv, product_id) ==
    IF inv = <<>> THEN 0
    ELSE (IF Head(inv).product_id = product_id THEN Head(inv).quantity ELSE 0)
         + OnHand(Tail(inv), product_id)

\* What a product's lines hold together with what is on hand.
Accounted(inv, ods, product_id) == OnHand(inv, product_id) + SumOfLines(ods, product_id, 0)

OrderLineOps == {"create_order_detail", "update_order_detail", "delete_order_detail"}

\* C14: once an order-line call has returned, every change it made to the
\* lines of a product is matched by the opposite change of the quantity on
\* hand: no debit or credit without its line change, and no line change
\* without its debit or credit, outlasts the call.
C14_NoMismatchOutlastsCall ==
    ( pc["c1"] = "idle" /\ call["c1"].op \in OrderLineOps )
    => \A product_id \in ProductIds :
          Accounted(inventory, orderDetails, product_id)
            = Accounted(pre["c1"].inventory, pre["c1"].orderDetails, product_id)

\* C15 as stated: every create_order_detail call on an order_id with no
\* Order fails with the order-not-found error and changes nothing.
C15_AsStated ==
    ( /\ Returned("create_order_detail")
      /\ ~OrderExists(orders, call["c1"].order) )
    => /\ call["c1"].res = "order_not_found"
       /\ StoresUnchanged

\* C15: a create_order_detail call with a quantity that int() accepts, on an
\* order_id with no Order, fails with the order-not-found error whatever the
\* inventory holds (also when the insufficient-inventory error would apply),
\* and leaves Inventory and OrderDetails unchanged.
C15_OrderNotFoundFirst ==
    ( /\ Returned("create_order_detail")
      /\ call["c1"].int
      /\ \A o \in orders : o.order_id # call["c1"].order )
    => /\ call["c1"].res = "order_not_found"
       /\ StoresUnchanged

\* A create on a missing order, for a product with nothing on hand, was
\* refused for the order.
C15_Witness ==
    /\ Returned("create_order_detail")
    /\ call["c1"].res = "order_not_found"
    /\ call["c1"].q > 0
    /\ ItemBefore = None
    /\ orders = {}

\* The stores as the last call began: no line for its (order_id, product_id),
\* no Inventory record for its product_id.
NoLineBefore ==
    \A i \in 1..Len(pre["c1"].orderDetails) :
        ~ /\ pre["c1"].orderDetails[i].order = call["c1"].order
          /\ pre["c1"].orderDetails[i].product_id = call["c1"].product

NoItemBefore ==
    \A i \in 1..Len(pre["c1"].inventory) :
        pre["c1"].inventory[i].product_id # call["c1"].product

LineErrors ==
    /\ NoLineBefore => call["c1"].res = "order_detail_not_found"
    /\ (~NoLineBefore /\ NoItemBefore) => call["c1"].res = "inventory_not_found"
    /\ (NoLineBefore \/ NoItemBefore) => StoresUnchanged

\* C16 as stated: every update_order_detail and delete_order_detail call
\* fails with the order-line-not-found error when no line exists for
\* (order_id, product_id), otherwise with the inventory-not-found error when
\* no Inventory record exists for product_id, and changes nothing.
C16_AsStated ==
    (Returned("update_order_detail") \/ Returned("delete_order_detail"))
    => LineErrors

\* C16: delete_order_detail, and update_order_detail with a new quantity that
\* int() accepts, fail with the order-line-not-found error when no line
\* exists for (order_id, product_id), otherwise with the inventory-not-found
\* error when no Inventory record exists for product_id; in both cases no
\* Inventory or OrderDetails record is changed.
C16_LineThenInventoryNotFound ==
    ( /\ Returned("update_order_detail") \/ Returned("delete_order_detail")
      /\ call["c1"].int )
    => LineErrors

\* A delete of a line whose Inventory record had been deleted was refused
\* and the line is still stored.
C16_Witness ==
    /\ Returned("delete_order_detail")
    /\ call["c1"].res = "inventory_not_found"
    /\ LineBefore # NoLine
    /\ ItemBefore = None
    /\ \E i \in 1..Len(orderDetails) : orderDetails[i].id = LineBefore.id

\* C17: an update_order_detail call whose new quantity equals the line's
\* quantity (difference zero), on a line whose Inventory record exists and
\* with no store write raising, succeeds, leaves the Inventory collection as
\* it was and the line's quantity equal to the new quantity, whatever the
\* quantity on hand (zero included).
C17_ZeroDeltaSucceeds ==
    ( /\ Returned("update_order_detail")
      /\ call["c1"].int
      /\ LineBefore # NoLine
      /\ ItemBefore # None
      /\ call["c1"].q = LineBefore.quantity
      /\ NoWriteRaised(call["c1"]) )
    => /\ call["c1"].res = "ok"
       /\ inventory = pre["c1"].inventory
       /\ orderDetails = pre["c1"].orderDetails
       /\ \E i \in 1..Len(orderDetails) :
            /\ orderDetails[i].id = LineBefore.id
            /\ orderDetails[i].quantity = call["c1"].q

\* An update to the line's own quantity succeeded with nothing on hand.
C17_Witness ==
    /\ Returned("update_order_detail")
    /\ call["c1"].res = "ok"
    /\ LineBefore # NoLine
    /\ call["c1"].q = LineBefore.quantity
    /\ call["c1"].q > 0
    /\ ItemBefore # None
    /\ ItemBefore.quantity = 0
    /\ QuantityNow(ItemBefore.inventory_id) = 0

\* The Inventory record the last call names by inventory_id, as it began.
NoTargetBefore ==
    \A i \in 1..Len(pre["c1"].inventory) :
        pre["c1"].inventory[i].inventory_id # call["c1"].target

\* C19: update_inventory_quantity fails with not-found and changes nothing
\* when no Inventory record has the inventory_id; otherwise (an integer new
\* quantity, the save not raising) it succeeds, the record's quantity is the
\* new quantity whatever it was and whatever the order lines hold, and every
\* other Inventory record and every OrderDetails record is as before.
C19_SetQuantityOverwrites ==
    Returned("update_inventory_quantity")
    => /\ NoTargetBefore
          => /\ call["c1"].res = "inventory_not_found"
             /\ StoresUnchanged
       /\ (~NoTargetBefore /\ call["c1"].int /\ NoWriteRaised(call["c1"]))
          => /\ call["c1"].res = "ok"
             /\ orderDetails = pre["c1"].orderDetails
             /\ Len(inventory) = Len(pre["c1"].inventory)
             /\ \A i \in 1..Len(inventory) :
                  inventory[i] =
                    IF pre["c1"].inventory[i].inventory_id = call["c1"].target
                    THEN [pre["c1"].inventory[i] EXCEPT !.quantity = call["c1"].q]
                    ELSE pre["c1"].inventory[i]

\* A set to a negative quantity succeeded on a record with an order line
\* against it, next to another Inventory record.
C19_Witness ==
    /\ Returned("update_inventory_quantity")
    /\ call["c1"].res = "ok"
    /\ call["c1"].q < 0
    /\ QuantityNow(call["c1"].target) = call["c1"].q
    /\ Len(inventory) = 2
    /\ \E i \in 1..Len(orderDetails) : orderDetails[i].product_id = call["c1"].product

\* C18: create_inventory fails with the product-not-found error and leaves
\* the Inventory collection as it was when the catalog has no entry for the
\* product_id; when the entry exists (an integer quantity, the save not
\* raising) it succeeds and the record with the inventory_id holds the
\* product_id and exactly the given quantity. delete_product, also when it
\* removes the entry, leaves every Inventory record as it was.
C18_ProductCheckedAtCreation ==
    /\ Returned("create_inventory")
       => /\ (\A h \in products : h.product_id # call["c1"].product)
             => /\ call["c1"].res = "product_not_found"
                /\ inventory = pre["c1"].inventory
          /\ ( /\ \E h \in products : h.product_id = call["c1"].product
               /\ call["c1"].int
               /\ NoWriteRaised(call["c1"]) )
             => /\ call["c1"].res = "ok"
                /\ \E i \in 1..Len(inventory) :
                     /\ inventory[i].inventory_id = call["c1"].target
                     /\ inventory[i].product_id = call["c1"].product
                     /\ inventory[i].quantity = call["c1"].q
                /\ \A i, j \in 1..Len(inventory) :
                     inventory[i].inventory_id = inventory[j].inventory_id => i = j
    /\ Returned("delete_product") => inventory = pre["c1"].inventory

\* A product with an Inventory record was deleted from the catalog, the
\* record stayed, and a further create_inventory for the product was refused.
C18_Witness ==
    /\ Returned("create_inventory")
    /\ call["c1"].res = "product_not_found"
    /\ \A h \in products : h.product_id # call["c1"].product
    /\ \E i \in 1..Len(inventory) :
         /\ inventory[i].product_id = call["c1"].product
         /\ inventory[i].quantity = InitialQuantity

\* C20: create_order fails with the retailer-not-found error and leaves the
\* Order collection as it was when no Retailer has the retailer_id; otherwise
\* (the save not raising) it succeeds and the one Order with the order_id
\* references that retailer and carries the clock reading of the call.
C20_CreateOrderChecksRetailer ==
    Returned("create_order")
    => /\ call["c1"].target \notin retailers
          => /\ call["c1"].res = "retailer_not_found"
             /\ orders = pre["c1"].orders
       /\ (call["c1"].target \in retailers /\ NoWriteRaised(call["c1"]))
          => /\ call["c1"].res = "ok"
             /\ \E o \in orders :
                  /\ o.order_id = call["c1"].order
                  /\ o.retailer = call["c1"].target
                  /\ o.order_date = now - 1
             /\ \A o1, o2 \in orders : o1.order_id = o2.order_id => o1 = o2

\* An order was stored for retailer R2 after retailer R1 had been deleted:
\* the order references R2 and carries a clock reading of the run.
C20_Witness ==
    /\ Returned("create_order")
    /\ call["c1"].res = "ok"
    /\ call["c1"].target = "R2"
    /\ "R1" \notin retailers
    /\ \E o \in orders : o.retailer = "R2" /\ o.order_date >= 1

\* The orders of the snapshot that are still stored, paired with their stored
\* form.
SameOrderBeforeAndNow ==
    {pair \in pre["c1"].orders \X orders : pair[1].order_id = pair[2].order_id}

\* update_order on a stored order: the reference is the new retailer when it
\* exists (the save not raising), and the Order collection is as before when
\* it does not.
UpdateOrderEffect ==
    ( /\ Returned("update_order")
      /\ call["c1"].target # ""
      /\ \E o \in pre["c1"].orders : o.order_id = call["c1"].order )
    => /\ (call["c1"].target \in retailers /\ NoWriteRaised(call["c1"]))
          => /\ call["c1"].res = "ok"
             /\ \A o \in orders :
                  o.order_id = call["c1"].order => o.retailer = call["c1"].target
       /\ call["c1"].target \notin retailers
          => /\ call["c1"].res = "retailer_not_found"
             /\ orders = pre["c1"].orders

\* C21: update_order gives the order the new retailer when that retailer
\* exists and fails with the retailer-not-found error, the order unchanged,
\* when it does not; a call of any other operation leaves the retailer
\* reference of every order that exists before and after it as it was.
C21_RetailerOnlyChangedByUpdate ==
    /\ UpdateOrderEffect
    /\ (pc["c1"] = "idle" /\ call["c1"].op # "update_order")
       => \A pair \in SameOrderBeforeAndNow : pair[1].retailer = pair[2].retailer

\* C22: the order_date of an order is never changed while the order exists:
\* after every call, every order stored before and after it has the
\* order_date it had before.
C22_OrderDateImmutable ==
    pc["c1"] = "idle"
    => \A pair \in SameOrderBeforeAndNow : pair[1].order_date = pair[2].order_date

\* The records of products other than the one the last call names.
OtherProduct(d) == d.product_id # call["c1"].product

\* The result of an order-line call as a function of its arguments, the
\* order, the Inventory record and line of its own product as the call
\* began, and which of its writes raised: nothing of another product.
ExpectedResult ==
    LET c == call["c1"]
        WriteResult == IF c.comp = "raised" THEN "raised"
                       ELSE IF NoWriteRaised(c) THEN "ok" ELSE "failed"
    IN  IF c.op = "create_order_detail"
        THEN IF ~c.int THEN "invalid_quantity"
             ELSE IF \A o \in pre["c1"].orders : o.order_id # c.order THEN "order_not_found"
             ELSE IF ItemBefore = None \/ ItemBefore.quantity < c.q THEN "not_enough_inventory"
             ELSE WriteResult
        ELSE IF c.op = "update_order_detail" /\ ~c.int THEN "invalid_quantity"
        ELSE IF LineBefore = NoLine THEN "order_detail_not_found"
        ELSE IF ItemBefore = None THEN "inventory_not_found"
        ELSE IF /\ c.op = "update_order_detail"
                /\ c.q - LineBefore.quantity > 0
                /\ c.q - LineBefore.quantity > ItemBefore.quantity
             THEN "not_enough_inventory"
        ELSE WriteResult

\* C23: an order-line create, update or delete for a product leaves every
\* Inventory record and every order line of any other product as it was, and
\* adds none; its result is the one its own product's records, its order, its
\* arguments and its own writes determine.
C23_ProductsIndependent ==
    (pc["c1"] = "idle" /\ call["c1"].op \in OrderLineOps)
    => /\ SelectSeq(inventory, OtherProduct) = SelectSeq(pre["c1"].inventory, OtherProduct)
       /\ SelectSeq(orderDetails, OtherProduct)
            = SelectSeq(pre["c1"].orderDetails, OtherProduct)
       /\ call["c1"].res = ExpectedResult

\* A line was created for one product while another product had an Inventory
\* record and a line of its own.
C23_Witness ==
    /\ Returned("create_order_detail")
    /\ call["c1"].res = "ok"
    /\ SelectSeq(inventory, OtherProduct) # <<>>
    /\ SelectSeq(orderDetails, OtherProduct) # <<>>
    /\ QuantityNow(ItemBefore.inventory_id) = ItemBefore.quantity - call["c1"].q

\* What the product's lines held together with what was on hand as the
\* concurrent run began.
RaceAccounted == Accounted(<<[inventory_id |-> "I1", product_id |-> RaceProduct,
                              quantity |-> InitialQuantity]>>, RaceLines, RaceProduct)

AllIdle == \A p \in Callers : pc[p] = "idle"

\* C24: after any interleaving of two clients' successful creates and deletes
\* of lines of one product, the deletes on distinct lines, the quantity on
\* hand is the initial quantity less the quantities of the lines created
\* plus those of the lines deleted: on hand plus the lines now stored equals
\* on hand plus the lines stored at the start.
C24_NoLostUpdate ==
    AllIdle => Accounted(inventory, orderDetails, RaceProduct) = RaceAccounted

\* Two creates that both began before either had debited both succeeded, and
\* the record holds the initial quantity less both.
C24_Witness ==
    /\ AllIdle
    /\ \A p \in Callers :
         /\ call[p].op = "create_order_detail"
         /\ call[p].res = "ok"
         /\ pre[p].inventory[1].quantity = InitialQuantity
         /\ pre[p].orderDetails = RaceLines
    /\ inventory[1].quantity = InitialQuantity - call["c1"].q - call["c2"].q

\* C25: every stored OrderDetails record references an Order that is stored.
C25_LinesOwnedByStoredOrder ==
    \A i \in 1..Len(orderDetails) :
        \E o \in orders : o.order_id = orderDetails[i].order

\* C26: every stored OrderDetails record has a quantity of at least 1.
C26_LineQuantityPositive ==
    \A i \in 1..Len(orderDetails) : orderDetails[i].quantity >= 1

\* C27: create_product fails and leaves the catalog as it was when no
\* supplier has the supplier_id, and when an entry with the product_id is
\* already stored; it succeeds only with the supplier stored and no such
\* entry, adding exactly the new entry. No two stored entries share a
\* product_id.
C27_CreateProductChecked ==
    /\ Returned("create_product")
       => /\ call["c1"].target \notin suppliers
             => /\ call["c1"].res = "supplier_not_found"
                /\ products = pre["c1"].products
          /\ ( /\ call["c1"].target \in suppliers
               /\ \E h \in pre["c1"].products : h.product_id = call["c1"].product )
             => /\ call["c1"].res = "product_exists"
                /\ products = pre["c1"].products
          /\ call["c1"].res = "ok"
             => /\ call["c1"].target \in suppliers
                /\ \A h \in pre["c1"].products : h.product_id # call["c1"].product
                /\ products = pre["c1"].products \cup
                     {[product_id |-> call["c1"].product, supplier_id |-> call["c1"].target]}
    /\ \A h1, h2 \in products : h1.product_id = h2.product_id => h1 = h2

\* A product with no stored entry was refused because its supplier had been
\* deleted.
C27_Witness ==
    /\ Returned("create_product")
    /\ call["c1"].res = "supplier_not_found"
    /\ call["c1"].target \notin suppliers
    /\ \A h \in products : h.product_id # call["c1"].product

\* C28: create_order_detail credits the record back only when the debit of
\* the same call was applied, so after a create that did not succeed no
\* Inventory record holds more than it did as the call began.
C28_CreditOnlyAfterDebit ==
    (Returned("create_order_detail") /\ call["c1"].res # "ok")
    => /\ call["c1"].comp = "applied" => call["c1"].invWrite = "applied"
       /\ Len(inventory) = Len(pre["c1"].inventory)
       /\ \A i \in 1..Len(inventory) :
            inventory[i].quantity <= pre["c1"].inventory[i].quantity

\* Two calls that began in the same state of the stores both worked on one
\* line and both succeeded, at least one of them a delete.
SameLineConcurrently ==
    /\ AllIdle
    /\ pre["c1"] = pre["c2"]
    /\ \A p \in Callers :
         /\ call[p].op \in {"delete_order_detail", "update_order_detail"}
         /\ call[p].res = "ok"
    /\ \E p \in Callers : call[p].op = "delete_order_detail"
    /\ call["c1"].od = call["c2"].od
    /\ call["c1"].product = call["c2"].product

\* C29: when two concurrent deletes, or a delete and an update, of the same
\* line have both succeeded, the line's quantity has been returned once:
\* the quantity on hand together with what the product's lines hold is what
\* it was as the two calls began.
C29_LineReturnedOnce ==
    SameLineConcurrently
    => Accounted(inventory, orderDetails, call["c1"].product)
         = Accounted(pre["c1"].inventory, pre["c1"].orderDetails, call["c1"].product)

====
